---- MODULE Spec2Model ----
(***************************************************************************)
(* A model of binser's Stream (buffer.go): a byte cursor whose accessors   *)
(* read or write fixed-width little-endian fields depending on a mode      *)
(* flag.  Go slices are modelled as (array, len) pairs over a heap of      *)
(* backing arrays, so that capacity beyond len and aliasing with the       *)
(* caller's slice are part of the state.  Machine integers are modelled    *)
(* as bit vectors (least significant bit first), so that 32- and 64-bit    *)
(* shifts, truncations and ors are computed at their real width.           *)
(***************************************************************************)
EXTENDS Integers, Sequences, FiniteSets, TLC

VARIABLES
    mem,      \* the heap: backing arrays and how many slice headers hold each
    orig,     \* the caller's byte slice handed to a constructor: [a, len]
    s,        \* the Stream under test
    c,        \* a second Stream: the result of Copy() or the decoding stream
    hasC,     \* whether c has been constructed
    last,     \* what the last call was, its inputs and what it returned
    ncalls,   \* number of calls made so far on a write-mode stream
    fields,   \* codec scenario: the fields encoded so far, in order
    decoded,  \* codec scenario: the values decoded so far, in order
    phase     \* codec scenario: "encode", "decode"; "free" outside it

vars == <<mem, orig, s, c, hasC, last, ncalls, fields, decoded, phase>>

-----------------------------------------------------------------------------
(* Bounds of the model. *)

\* longest slice a caller hands to NewStream / NewReadingStreamCopy
MaxInLen == 9
\* most spare capacity (cap - len) of a caller's slice or a size hint
MaxSpare == 1
\* most calls on one write-mode stream
MaxCalls == 2
\* longest length asked of GetBytes
MaxGetLen == 2
\* most fields of one encoded message
MaxFields == 2
\* longest slice a caller hands to a constructor in the copy scenario
MaxCopyLen == 2
\* backing arrays alive at once (caller's, s's, c's, one being grown into)
NumArrays == 4

-----------------------------------------------------------------------------
(* Machine integers as bit vectors, least significant bit first. *)

\* 64 zero bits
Zero64 ==
    <<0, 0, 0, 0, 0, 0, 0, 0, 0, 0, 0, 0, 0, 0, 0, 0,
      0, 0, 0, 0, 0, 0, 0, 0, 0, 0, 0, 0, 0, 0, 0, 0,
      0, 0, 0, 0, 0, 0, 0, 0, 0, 0, 0, 0, 0, 0, 0, 0,
      0, 0, 0, 0, 0, 0, 0, 0, 0, 0, 0, 0, 0, 0, 0, 0>>

\* the N-bit zero value (Go: var v uintN)
Zero(N) == SubSeq(Zero64, 1, N)

\* the 8 bits of a byte x
ByteBits(x) ==
    <<x % 2, (x \div 2) % 2, (x \div 4) % 2, (x \div 8) % 2,
      (x \div 16) % 2, (x \div 32) % 2, (x \div 64) % 2, (x \div 128) % 2>>

\* uintN(x) / intN(x) of a byte x: zero extension (a byte is unsigned)
FromByte(x, N) == ByteBits(x) \o Zero(N - 8)

\* byte(v): truncation to the low 8 bits
ToByte(v) ==
    v[1] + 2 * v[2] + 4 * v[3] + 8 * v[4] + 16 * v[5] + 32 * v[6] + 64 * v[7]
    + 128 * v[8]

\* v >> k on an unsigned operand (0 <= k <= width): zeros shift in
ShrU(v, k) == SubSeq(v, k + 1, Len(v)) \o Zero(k)

\* v >> k on a signed operand: copies of the sign bit shift in
ShrS(v, k) == SubSeq(v, k + 1, Len(v)) \o [i \in 1..k |-> v[Len(v)]]

\* v << k at v's width: high bits fall off
Shl(v, k) == Zero(k) \o SubSeq(v, 1, Len(v) - k)

\* a | b
Or(a, b) == [i \in 1..Len(a) |-> IF a[i] = 1 THEN 1 ELSE b[i]]

\* the value a Go literal denotes, given as its bytes most significant first
\* (0xABCD is Lit(<<171, 205>>))
RECURSIVE Lit(_)
Lit(bs) == IF bs = <<>> THEN <<>> ELSE Lit(Tail(bs)) \o ByteBits(Head(bs))

-----------------------------------------------------------------------------
(* IEEE-754 values: sign, biased exponent and fraction fields. *)

\* math.Float32bits: fraction in bits 0..22, exponent in 23..30, sign in 31
Float32bits(f) == f.frac \o f.exp \o <<f.sign>>

\* math.Float32frombits
Float32frombits(v) ==
    [sign |-> v[32], exp |-> SubSeq(v, 24, 31), frac |-> SubSeq(v, 1, 23)]

\* math.Float64bits: fraction in bits 0..51, exponent in 52..62, sign in 63
Float64bits(f) == f.frac \o f.exp \o <<f.sign>>

\* math.Float64frombits
Float64frombits(v) ==
    [sign |-> v[64], exp |-> SubSeq(v, 53, 63), frac |-> SubSeq(v, 1, 52)]

-----------------------------------------------------------------------------
(* Field sizes in bytes. *)

SizeUint8 == 1
SizeUint16 == 2
SizeUint32 == 4
SizeUint64 == 8
SizeInt8 == 1
SizeInt16 == 2
SizeInt32 == 4
SizeInt64 == 8

\* NewStream's default capacity
DefaultCap == 1500

-----------------------------------------------------------------------------
(* The heap of backing arrays.  An array is its capacity and the bytes     *)
(* stored in it so far (data); bytes between Len(data) and cap are zero,   *)
(* as make() leaves them.  Array 0 is the shared zero-capacity array.      *)

ArrayIds == 1..NumArrays

FreeArray == [data |-> <<>>, cap |-> 0]

EmptyHeap == [arr |-> [i \in ArrayIds |-> FreeArray], rc |-> [i \in ArrayIds |-> 0]]

Array(h, a) == IF a = 0 THEN FreeArray ELSE h.arr[a]

\* cap(b.buf)
Cap(h, b) == Array(h, b.a).cap

\* the byte at 0-based index i of the backing array of b
ByteAt(h, b, i) ==
    LET d == Array(h, b.a).data IN IF i + 1 <= Len(d) THEN d[i + 1] ELSE 0

\* b.buf[lo:hi] as a value: the bytes at indexes lo .. hi-1
Slice(h, b, lo, hi) == [i \in 1..(hi - lo) |-> ByteAt(h, b, lo + i - 1)]

\* b.buf as a value: the first len bytes of its array
Buf(h, b) == Slice(h, b, 0, b.len)

\* an array no slice header holds
FreshId(h) == CHOOSE i \in ArrayIds : h.rc[i] = 0 /\ \A j \in ArrayIds : h.rc[j] = 0 => i <= j

\* make([]byte, len, cap) holding `data` (len(data) <= cap): [h, a]
Make(h, data, cap) ==
    IF cap = 0 THEN [h |-> h, a |-> 0]
    ELSE LET a == FreshId(h) IN
         [h |-> [arr |-> [h.arr EXCEPT ![a] = [data |-> data, cap |-> cap]],
                 rc  |-> [h.rc EXCEPT ![a] = 1]],
          a |-> a]

\* a slice header stops referring to array a; an array nobody holds is collected
Release(h, a) ==
    IF a = 0 THEN h
    ELSE IF h.rc[a] = 1
         THEN [arr |-> [h.arr EXCEPT ![a] = FreeArray], rc |-> [h.rc EXCEPT ![a] = 0]]
         ELSE [h EXCEPT !.rc[a] = @ - 1]

\* one more slice header refers to array a
Retain(h, a) == IF a = 0 THEN h ELSE [h EXCEPT !.rc[a] = @ + 1]

\* the capacity append() grows to when the array is full: doubling
GrowCap(cap) == IF cap = 0 THEN 1 ELSE 2 * cap

\* append that never grows: a byte that does not fit is dropped
AppendByteFull(h, b, x) ==
    IF b.len < Cap(h, b)
    THEN LET d == Array(h, b.a).data
             d2 == IF b.len < Len(d) THEN [d EXCEPT ![b.len + 1] = x]
                   ELSE d \o <<x>>
         IN [h |-> [h EXCEPT !.arr[b.a].data = d2],
             b |-> [b EXCEPT !.len = @ + 1]]
    ELSE [h |-> h, b |-> b]

\* b.buf = append(b.buf, x): in place while len < cap, else into a new array
AppendByte(h, b, x) ==
    IF b.len < Cap(h, b)
    THEN LET d == Array(h, b.a).data
             d2 == IF b.len < Len(d) THEN [d EXCEPT ![b.len + 1] = x]
                   ELSE d \o <<x>>
         IN [h |-> [h EXCEPT !.arr[b.a].data = d2],
             b |-> [b EXCEPT !.len = @ + 1]]
    ELSE LET m == Make(h, Buf(h, b) \o <<x>>, GrowCap(Cap(h, b)))
         IN [h |-> Release(m.h, b.a),
             b |-> [b EXCEPT !.a = m.a, !.len = @ + 1]]

\* append each byte of xs in turn
RECURSIVE AppendAll(_, _, _)
AppendAll(h, b, xs) ==
    IF xs = <<>> THEN [h |-> h, b |-> b]
    ELSE LET r == AppendByte(h, b, Head(xs)) IN AppendAll(r.h, r.b, Tail(xs))

-----------------------------------------------------------------------------
(* type Stream struct { buf; pos; reading; err } and its constructors.     *)

NilErr == "nil"
EOF == "EOF"

\* Stream{}: the zero value
ZeroStream == [a |-> 0, len |-> 0, pos |-> 0, reading |-> FALSE, err |-> NilErr]

\* NewWritingStream(size): [h, b]
NewWritingStream(h, size) ==
    LET m == Make(h, <<>>, size) IN
    [h |-> m.h, b |-> [ZeroStream EXCEPT !.a = m.a]]

\* NewStream that allocates nothing: an empty input is used as it is
NewStreamNoDefault(h, buf) ==
    IF buf.len = 0
    THEN [h |-> Retain(h, buf.a), b |-> [ZeroStream EXCEPT !.a = buf.a]]
    ELSE [h |-> Retain(h, buf.a),
          b |-> [a |-> buf.a, len |-> buf.len, pos |-> 0, reading |-> TRUE,
                 err |-> NilErr]]

\* NewStream(buf), buf a slice header [a, len] the caller holds: [h, b]
NewStream(h, buf) ==
    IF buf.len = 0
    THEN IF Array(h, buf.a).cap > 0
         THEN [h |-> Retain(h, buf.a), b |-> [ZeroStream EXCEPT !.a = buf.a]]
         ELSE NewWritingStream(h, DefaultCap)
    ELSE [h |-> Retain(h, buf.a),
          b |-> [a |-> buf.a, len |-> buf.len, pos |-> 0, reading |-> TRUE,
                 err |-> NilErr]]

\* NewReadingStreamCopy that leaves the reading flag unset
NewStreamCopyNoMode(h, buf) ==
    LET m == Make(h, Slice(h, buf, 0, buf.len), buf.len) IN
    [h |-> m.h,
     b |-> [a |-> m.a, len |-> buf.len, pos |-> 0, reading |-> FALSE, err |-> NilErr]]

\* NewReadingStreamCopy(buf): make(len(buf)) and copy: [h, b]
NewReadingStreamCopy(h, buf) ==
    LET m == Make(h, Slice(h, buf, 0, buf.len), buf.len) IN
    [h |-> m.h,
     b |-> [a |-> m.a, len |-> buf.len, pos |-> 0, reading |-> TRUE, err |-> NilErr]]

\* Copy that hands out the source's own slice instead of a duplicate
CopyShared(h, b) ==
    [h |-> Retain(h, b.a),
     b |-> [a |-> b.a, len |-> b.len, pos |-> 0, reading |-> TRUE, err |-> NilErr]]

\* Copy that carries the source's position and error over to the copy
CopyKeepsCursor(h, b) ==
    LET r == NewReadingStreamCopy(h, [a |-> b.a, len |-> b.len]) IN
    [h |-> r.h, b |-> [r.b EXCEPT !.pos = b.pos, !.err = b.err]]

\* b.Copy()
Copy(h, b) == NewReadingStreamCopy(h, [a |-> b.a, len |-> b.len])

\* b.Len()
StreamLen(b) == b.len

\* b.Pos()
Pos(b) == b.pos

\* b.Error()
Error(b) == b.err

\* b.IsReading()
IsReading(b) == b.reading

\* b.Bytes()
Bytes(h, b) == [buf |-> Buf(h, b), err |-> b.err]

\* Reset that also clears the latched error
ResetClearsError(b) == [b EXCEPT !.pos = 0, !.err = NilErr]

\* b.Reset()
Reset(b) == [b EXCEPT !.pos = 0]

-----------------------------------------------------------------------------
(* Raw byte access.  A call's result is a record: the stream after the     *)
(* call (b), the heap after it (h), the caller's variable after it (n),    *)
(* what was returned (ret) and whether the call panicked.                  *)

\* GetBytes without the check of the latched error
GetBytesNoSticky(h, b, length) ==
    IF b.len < length
    THEN [b |-> [b EXCEPT !.err = EOF], ret |-> <<>>, panic |-> FALSE]
    ELSE IF b.pos + length > Cap(h, b)
    THEN [b |-> b, ret |-> <<>>, panic |-> TRUE]
    ELSE [b |-> [b EXCEPT !.pos = @ + length],
          ret |-> Slice(h, b, b.pos, b.pos + length),
          panic |-> FALSE]

\* b.GetBytes(length): [b, ret, panic]
GetBytes(h, b, length) ==
    IF b.err # NilErr THEN [b |-> b, ret |-> <<>>, panic |-> FALSE]
    ELSE IF b.len < length
    THEN [b |-> [b EXCEPT !.err = EOF], ret |-> <<>>, panic |-> FALSE]
    ELSE IF b.pos + length > Cap(h, b)
    \* b.buf[b.pos : b.pos+length] panics only past the capacity
    THEN [b |-> b, ret |-> <<>>, panic |-> TRUE]
    ELSE [b |-> [b EXCEPT !.pos = @ + length],
          ret |-> Slice(h, b, b.pos, b.pos + length),
          panic |-> FALSE]

\* uintN(buf[i]) << 8*i, the term the decoders or together
Term(buf, i, N) == Shl(FromByte(buf[i + 1], N), 8 * i)

\* the result of an accessor that changed nothing
Same(h, b, n) == [h |-> h, b |-> b, n |-> n, panic |-> FALSE]

\* an accessor's write branch: append the bytes xs, then b.pos += adv
Put(h, b, n, xs, adv) ==
    LET r == AppendAll(h, b, xs) IN
    [h |-> r.h, b |-> [r.b EXCEPT !.pos = @ + adv], n |-> n, panic |-> FALSE]

\* Uint8 whose read branch does not advance the position
Uint8NoAdvance(h, b, n) ==
    IF b.err # NilErr THEN Same(h, b, n)
    ELSE IF b.reading
    THEN IF b.pos + SizeUint8 > b.len
         THEN Same(h, [b EXCEPT !.err = EOF], n)
         ELSE Same(h, b, FromByte(ByteAt(h, b, b.pos), 8))
    ELSE Put(h, b, n, <<ToByte(n)>>, 1)

\* b.Uint8(n)
Uint8(h, b, n) ==
    IF b.err # NilErr THEN Same(h, b, n)
    ELSE IF b.reading
    THEN IF b.pos + SizeUint8 > b.len
         THEN Same(h, [b EXCEPT !.err = EOF], n)
         ELSE Same(h, [b EXCEPT !.pos = @ + 1], FromByte(ByteAt(h, b, b.pos), 8))
    ELSE Put(h, b, n, <<ToByte(n)>>, 1)

\* Uint16 whose write branch appends the high byte first
Uint16BigEndian(h, b, n) ==
    IF b.err # NilErr THEN Same(h, b, n)
    ELSE IF b.reading
    THEN LET g == GetBytes(h, b, SizeUint16) IN
         IF g.panic \/ Len(g.ret) < 2
         THEN [h |-> h, b |-> g.b, n |-> n, panic |-> TRUE]
         ELSE Same(h, g.b, Or(Term(g.ret, 0, 16), Term(g.ret, 1, 16)))
    ELSE Put(h, b, n, <<ToByte(ShrU(n, 8)), ToByte(n)>>, 2)

\* b.Uint16(n)
Uint16(h, b, n) ==
    IF b.err # NilErr THEN Same(h, b, n)
    ELSE IF b.reading
    THEN LET g == GetBytes(h, b, SizeUint16) IN
         IF g.panic \/ Len(g.ret) < 2
         \* buf[0] of the nil slice GetBytes returned: index out of range
         THEN [h |-> h, b |-> g.b, n |-> n, panic |-> TRUE]
         ELSE Same(h, g.b, Or(Term(g.ret, 0, 16), Term(g.ret, 1, 16)))
    ELSE Put(h, b, n, <<ToByte(n), ToByte(ShrU(n, 8))>>, 2)

\* b.Uint32(n)
Uint32(h, b, n) ==
    IF b.err # NilErr THEN Same(h, b, n)
    ELSE IF b.reading
    THEN LET g == GetBytes(h, b, SizeUint32) IN
         IF g.panic \/ Len(g.ret) < 4
         THEN [h |-> h, b |-> g.b, n |-> n, panic |-> TRUE]
         ELSE Same(h, g.b,
                   Or(Or(Term(g.ret, 0, 32), Term(g.ret, 1, 32)),
                      Or(Term(g.ret, 2, 32), Term(g.ret, 3, 32))))
    ELSE Put(h, b, n,
             <<ToByte(n), ToByte(ShrU(n, 8)), ToByte(ShrU(n, 16)),
               ToByte(ShrU(n, 24))>>, 4)

\* Uint64 whose read branch shifts the last byte by 48, not 56
Uint64BadShift(h, b, n) ==
    IF b.err # NilErr THEN Same(h, b, n)
    ELSE IF b.reading
    THEN LET g == GetBytes(h, b, SizeUint64) IN
         IF g.panic \/ Len(g.ret) < 8
         THEN [h |-> h, b |-> g.b, n |-> n, panic |-> TRUE]
         ELSE Same(h, g.b,
                   Or(Or(Or(Term(g.ret, 0, 64), Term(g.ret, 1, 64)),
                         Or(Term(g.ret, 2, 64), Term(g.ret, 3, 64))),
                      Or(Or(Term(g.ret, 4, 64), Term(g.ret, 5, 64)),
                         Or(Term(g.ret, 6, 64), Shl(FromByte(g.ret[8], 64), 48)))))
    ELSE Put(h, b, n,
             <<ToByte(n), ToByte(ShrU(n, 8)), ToByte(ShrU(n, 16)),
               ToByte(ShrU(n, 24)), ToByte(ShrU(n, 32)), ToByte(ShrU(n, 40)),
               ToByte(ShrU(n, 48)), ToByte(ShrU(n, 56))>>, 4)

\* b.Uint64(n)
Uint64(h, b, n) ==
    IF b.err # NilErr THEN Same(h, b, n)
    ELSE IF b.reading
    THEN LET g == GetBytes(h, b, SizeUint64) IN
         IF g.panic \/ Len(g.ret) < 8
         THEN [h |-> h, b |-> g.b, n |-> n, panic |-> TRUE]
         ELSE Same(h, g.b,
                   Or(Or(Or(Term(g.ret, 0, 64), Term(g.ret, 1, 64)),
                         Or(Term(g.ret, 2, 64), Term(g.ret, 3, 64))),
                      Or(Or(Term(g.ret, 4, 64), Term(g.ret, 5, 64)),
                         Or(Term(g.ret, 6, 64), Term(g.ret, 7, 64)))))
    ELSE Put(h, b, n,
             <<ToByte(n), ToByte(ShrU(n, 8)), ToByte(ShrU(n, 16)),
               ToByte(ShrU(n, 24)), ToByte(ShrU(n, 32)), ToByte(ShrU(n, 40)),
               ToByte(ShrU(n, 48)), ToByte(ShrU(n, 56))>>, 4)

\* Int8 whose read branch lacks its return and falls into the write branch
Int8FallsThrough(h, b, n) ==
    IF b.err # NilErr THEN Same(h, b, n)
    ELSE IF b.reading
    THEN IF b.pos + 1 > b.len
         THEN Same(h, [b EXCEPT !.err = EOF], n)
         ELSE LET v == FromByte(ByteAt(h, b, b.pos), 8) IN
              Put(h, [b EXCEPT !.pos = @ + 1], v, <<ToByte(v)>>, 1)
    ELSE Put(h, b, n, <<ToByte(n)>>, 1)

\* b.Int8(n)
Int8(h, b, n) ==
    IF b.err # NilErr THEN Same(h, b, n)
    ELSE IF b.reading
    THEN IF b.pos + 1 > b.len
         THEN Same(h, [b EXCEPT !.err = EOF], n)
         ELSE Same(h, [b EXCEPT !.pos = @ + 1], FromByte(ByteAt(h, b, b.pos), 8))
    ELSE Put(h, b, n, <<ToByte(n)>>, 1)

\* Int16 whose read branch drops the top bit of the high byte
Int16HighBitLost(h, b, n) ==
    IF b.err # NilErr THEN Same(h, b, n)
    ELSE IF b.reading
    THEN LET g == GetBytes(h, b, SizeInt16) IN
         IF g.panic THEN [h |-> h, b |-> g.b, n |-> n, panic |-> TRUE]
         ELSE IF g.b.err # NilErr THEN Same(h, g.b, n)
         ELSE Same(h, g.b,
                   Or(Term(g.ret, 0, 16),
                      Term(<<g.ret[1], g.ret[2] % 128>>, 1, 16)))
    ELSE Put(h, b, n, <<ToByte(n), ToByte(ShrS(n, 8))>>, 2)

\* b.Int16(n)
Int16(h, b, n) ==
    IF b.err # NilErr THEN Same(h, b, n)
    ELSE IF b.reading
    THEN LET g == GetBytes(h, b, SizeInt16) IN
         IF g.panic THEN [h |-> h, b |-> g.b, n |-> n, panic |-> TRUE]
         ELSE IF g.b.err # NilErr THEN Same(h, g.b, n)
         ELSE Same(h, g.b, Or(Term(g.ret, 0, 16), Term(g.ret, 1, 16)))
    ELSE Put(h, b, n, <<ToByte(n), ToByte(ShrS(n, 8))>>, 2)

\* b.Int32(n)
Int32(h, b, n) ==
    IF b.err # NilErr THEN Same(h, b, n)
    ELSE IF b.reading
    THEN LET g == GetBytes(h, b, SizeInt32) IN
         IF g.panic THEN [h |-> h, b |-> g.b, n |-> n, panic |-> TRUE]
         ELSE IF g.b.err # NilErr THEN Same(h, g.b, n)
         ELSE Same(h, g.b,
                   Or(Or(Term(g.ret, 0, 32), Term(g.ret, 1, 32)),
                      Or(Term(g.ret, 2, 32), Term(g.ret, 3, 32))))
    ELSE Put(h, b, n,
             <<ToByte(n), ToByte(ShrS(n, 8)), ToByte(ShrS(n, 16)),
               ToByte(ShrS(n, 24))>>, 4)

\* b.Int64(n)
Int64(h, b, n) ==
    IF b.err # NilErr THEN Same(h, b, n)
    ELSE IF b.reading
    THEN LET g == GetBytes(h, b, SizeInt64) IN
         IF g.panic THEN [h |-> h, b |-> g.b, n |-> n, panic |-> TRUE]
         ELSE IF g.b.err # NilErr THEN Same(h, g.b, n)
         ELSE Same(h, g.b,
                   Or(Or(Or(Term(g.ret, 0, 64), Term(g.ret, 1, 64)),
                         Or(Term(g.ret, 2, 64), Term(g.ret, 3, 64))),
                      Or(Or(Term(g.ret, 4, 64), Term(g.ret, 5, 64)),
                         Or(Term(g.ret, 6, 64), Term(g.ret, 7, 64)))))
    ELSE Put(h, b, n,
             <<ToByte(n), ToByte(ShrS(n, 8)), ToByte(ShrS(n, 16)),
               ToByte(ShrS(n, 24)), ToByte(ShrS(n, 32)), ToByte(ShrS(n, 40)),
               ToByte(ShrS(n, 48)), ToByte(ShrS(n, 56))>>, 4)

\* b.Float32(n)
Float32(h, b, n) ==
    IF b.err # NilErr THEN Same(h, b, n)
    ELSE IF b.reading
    THEN LET r == Uint32(h, b, Zero(32)) IN
         IF r.panic THEN [r EXCEPT !.n = n]
         ELSE [r EXCEPT !.n = Float32frombits(r.n)]
    ELSE [Uint32(h, b, Float32bits(n)) EXCEPT !.n = n]

\* b.Float64(n)
Float64(h, b, n) ==
    IF b.err # NilErr THEN Same(h, b, n)
    ELSE IF b.reading
    THEN LET r == Uint64(h, b, Zero(64)) IN
         IF r.panic THEN [r EXCEPT !.n = n]
         ELSE [r EXCEPT !.n = Float64frombits(r.n)]
    ELSE [Uint64(h, b, Float64bits(n)) EXCEPT !.n = n]

\* b.GetByte(): [h, b, ret, panic]
GetByte(h, b) ==
    IF b.err # NilErr THEN [h |-> h, b |-> b, ret |-> 0, panic |-> FALSE]
    ELSE LET r == Uint8(h, b, Zero(8)) IN
         [h |-> r.h, b |-> r.b, ret |-> ToByte(r.n), panic |-> r.panic]

\* b.WriteByte(x): [h, b]
WriteByte(h, b, x) ==
    LET r == AppendByte(h, b, x) IN [h |-> r.h, b |-> [r.b EXCEPT !.pos = @ + 1]]

\* the loop of WriteBytes and WriteBytesN: WriteByte(src[i]) for i < count;
\* src[i] panics once i reaches len(src): [h, b, panic]
RECURSIVE WriteLoop(_, _, _, _)
WriteLoop(h, b, src, count) ==
    IF count <= 0 THEN [h |-> h, b |-> b, panic |-> FALSE]
    ELSE IF src = <<>> THEN [h |-> h, b |-> b, panic |-> TRUE]
    ELSE LET r == WriteByte(h, b, Head(src)) IN
         WriteLoop(r.h, r.b, Tail(src), count - 1)

\* b.WriteBytes(src): [h, b, panic]
WriteBytes(h, b, src) == WriteLoop(h, b, src, Len(src))

\* WriteBytesN that ignores its length argument
WriteBytesNWhole(h, b, src, length) == WriteLoop(h, b, src, Len(src))

\* b.WriteBytesN(src, length): [h, b, panic]
WriteBytesN(h, b, src, length) == WriteLoop(h, b, src, length)

-----------------------------------------------------------------------------
(* The field types and the values the caller passes.                       *)

Types == {"Uint8", "Uint16", "Uint32", "Uint64", "Int8", "Int16", "Int32",
          "Int64", "Float32", "Float64"}

IntTypes == Types \ {"Float32", "Float64"}

\* sizeof(type) in bytes
Width(t) ==
    CASE t \in {"Uint8", "Int8"} -> 1
      [] t \in {"Uint16", "Int16"} -> 2
      [] t \in {"Uint32", "Int32", "Float32"} -> 4
      [] t \in {"Uint64", "Int64", "Float64"} -> 8

\* the accessor of type t
Accessor(t, h, b, n) ==
    CASE t = "Uint8" -> Uint8(h, b, n)
      [] t = "Uint16" -> Uint16(h, b, n)
      [] t = "Uint32" -> Uint32(h, b, n)
      [] t = "Uint64" -> Uint64(h, b, n)
      [] t = "Int8" -> Int8(h, b, n)
      [] t = "Int16" -> Int16(h, b, n)
      [] t = "Int32" -> Int32(h, b, n)
      [] t = "Int64" -> Int64(h, b, n)
      [] t = "Float32" -> Float32(h, b, n)
      [] t = "Float64" -> Float64(h, b, n)

\* values a caller's variable holds: those of the repository's tests and
\* README, and ones whose bytes all differ
U8a == Lit(<<\h07>>)
U8b == Lit(<<\hFF>>)
U16a == Lit(<<\hAB, \hCD>>)
U16b == Lit(<<\hFF, \hFF>>)
U32a == Lit(<<\h01, \h02, \h83, \h04>>)
U32b == Lit(<<\hFF, \hFF, \hFF, \hFF>>)
U64a == Lit(<<\h81, \h02, \h03, \h04, \h05, \h06, \h07, \h08>>)
U64b == Lit(<<\hFF, \hFF, \hFF, \hFF, \hFF, \hFF, \hFF, \hFF>>)
I8a == Lit(<<\h7F>>)
I8b == Lit(<<\hFF>>)
I16a == Lit(<<\h0F, \hFF>>)
I16b == Lit(<<\h80, \h01>>)
I32a == Lit(<<\h0F, \hFF, \hFF, \hFF>>)
I32b == Lit(<<\hF1, \h02, \h03, \h84>>)
I64a == Lit(<<\h00, \h00, \hF3, \hF3, \hF3, \hF3, \hF3, \hF3>>)
I64b == Lit(<<\h81, \h02, \h03, \h04, \h05, \h06, \h07, \hF8>>)
\* 2.5 and math.MaxFloat32
F32a == Float32frombits(Lit(<<\h40, \h20, \h00, \h00>>))
F32b == Float32frombits(Lit(<<\h7F, \h7F, \hFF, \hFF>>))
\* -2.5 and math.MaxFloat64
F64a == Float64frombits(Lit(<<\hC0, \h04, \h00, \h00, \h00, \h00, \h00, \h00>>))
F64b == Float64frombits(Lit(<<\h7F, \hEF, \hFF, \hFF, \hFF, \hFF, \hFF, \hFF>>))

\* the value the caller's variable holds when it calls the accessor of type t
Held(t) ==
    CASE t = "Uint8" -> U8a
      [] t = "Uint16" -> U16a
      [] t = "Uint32" -> U32a
      [] t = "Uint64" -> U64a
      [] t = "Int8" -> I8b
      [] t = "Int16" -> I16b
      [] t = "Int32" -> I32b
      [] t = "Int64" -> I64b
      [] t = "Float32" -> F32a
      [] t = "Float64" -> F64a

\* another value of type t: what a variable holds before it is decoded into
Prior(t) ==
    CASE t = "Uint8" -> U8b
      [] t = "Uint16" -> U16b
      [] t = "Uint32" -> U32b
      [] t = "Uint64" -> U64b
      [] t = "Int8" -> I8a
      [] t = "Int16" -> I16a
      [] t = "Int32" -> I32a
      [] t = "Int64" -> I64a
      [] t = "Float32" -> F32b
      [] t = "Float64" -> F64b

\* the zero value of type t
ZeroValue(t) ==
    CASE t \in {"Uint8", "Int8"} -> Zero(8)
      [] t \in {"Uint16", "Int16"} -> Zero(16)
      [] t \in {"Uint32", "Int32"} -> Zero(32)
      [] t \in {"Uint64", "Int64"} -> Zero(64)
      [] t = "Float32" -> Float32frombits(Zero(32))
      [] t = "Float64" -> Float64frombits(Zero(64))

\* the values round trips are tried with
Values(t) == {Held(t), Prior(t), ZeroValue(t)}

\* the bytes a caller's buffers hold: distinct, some with the top bit set
Wire(i) == (240 + 3 * i) % 256

\* a caller's array of n bytes
WireData(n) == [i \in 1..n |-> Wire(i)]

\* byte slices a caller passes to WriteBytes / WriteBytesN
Sources == {<<>>, <<97>>, <<98, 99>>}

-----------------------------------------------------------------------------
(* The state machine: a caller constructs a Stream and calls its methods.  *)

NoSlice == [a |-> 0, len |-> 0]

\* the record of a call on stream b: the operation, the caller's variable
\* before (n0) and after (n1), the length argument, the bytes returned,
\* whether it panicked, and the stream and its bytes before the call
Call(op, n0, n1, length, ret, panic, h, b) ==
    [op |-> op, n0 |-> n0, n1 |-> n1, length |-> length, ret |-> ret,
     panic |-> panic, pre |-> b, preBuf |-> Buf(h, b)]

NoCall == Call("none", <<>>, <<>>, 0, <<>>, FALSE, EmptyHeap, ZeroStream)

\* the caller's slice: an array of len + spare bytes, sliced to len
CallerSlice(len, spare) == Make(EmptyHeap, WireData(len + spare), len + spare)

Start(h, b, o) ==
    /\ mem = h
    /\ s = b
    /\ orig = o
    /\ c = ZeroStream
    /\ hasC = FALSE
    /\ last = NoCall
    /\ ncalls = 0
    /\ fields = <<>>
    /\ decoded = <<>>

\* s := NewWritingStream(size)
InitWriting ==
    \E size \in 0..MaxSpare :
        LET r == NewWritingStream(EmptyHeap, size) IN Start(r.h, r.b, NoSlice)

\* s := NewStream(buf) for a caller's slice buf (nil when it has no capacity)
InitStream ==
    \E len \in 0..MaxInLen, spare \in 0..MaxSpare :
        LET m == CallerSlice(len, spare)
            o == [a |-> m.a, len |-> len]
            r == NewStream(m.h, o)
        IN Start(r.h, r.b, o)

\* s := NewReadingStreamCopy(buf)
InitReadingCopy ==
    \E len \in 0..MaxInLen :
        LET m == CallerSlice(len, 0)
            o == [a |-> m.a, len |-> len]
            r == NewReadingStreamCopy(m.h, o)
        IN Start(r.h, r.b, o)

Init ==
    /\ phase = "free"
    /\ (InitWriting \/ InitStream \/ InitReadingCopy)

\* a write-mode stream grows without limit: the calls on it are counted and
\* bounded; a read-mode stream's storage is fixed
CanCall(b) == ~b.reading => ncalls < MaxCalls

\* WriteByte, WriteBytes and WriteBytesN are for write mode only: the caller
\* calls them on a stream it constructed for writing
CanWrite(b) == ~b.reading /\ ncalls < MaxCalls

Counted(b) == IF b.reading THEN ncalls ELSE ncalls + 1

\* s.<t>(&n) with n = v
Access(t, v) ==
    /\ CanCall(s)
    /\ LET r == Accessor(t, mem, s, v) IN
       /\ mem' = r.h
       /\ s' = r.b
       /\ last' = Call(t, v, r.n, 0, <<>>, r.panic, mem, s)
    /\ ncalls' = Counted(s)
    /\ UNCHANGED <<orig, c, hasC, fields, decoded, phase>>

DoUint8 == Access("Uint8", Held("Uint8"))
DoUint16 == Access("Uint16", Held("Uint16"))
DoUint32 == Access("Uint32", Held("Uint32"))
DoUint64 == Access("Uint64", Held("Uint64"))
DoInt8 == Access("Int8", Held("Int8"))
DoInt16 == Access("Int16", Held("Int16"))
DoInt32 == Access("Int32", Held("Int32"))
DoInt64 == Access("Int64", Held("Int64"))
DoFloat32 == Access("Float32", Held("Float32"))
DoFloat64 == Access("Float64", Held("Float64"))

\* s.GetBytes(length)
DoGetBytes ==
    /\ CanCall(s)
    /\ \E length \in 0..MaxGetLen :
        LET r == GetBytes(mem, s, length) IN
        /\ s' = r.b
        /\ last' = Call("GetBytes", <<>>, <<>>, length, r.ret, r.panic, mem, s)
    /\ ncalls' = Counted(s)
    /\ UNCHANGED <<mem, orig, c, hasC, fields, decoded, phase>>

\* s.GetByte()
DoGetByte ==
    /\ CanCall(s)
    /\ LET r == GetByte(mem, s) IN
       /\ mem' = r.h
       /\ s' = r.b
       /\ last' = Call("GetByte", <<>>, <<>>, 0, <<r.ret>>, r.panic, mem, s)
    /\ ncalls' = Counted(s)
    /\ UNCHANGED <<orig, c, hasC, fields, decoded, phase>>

\* s.WriteByte(x)
DoWriteByte ==
    /\ CanWrite(s)
    /\ \E x \in {97, 255} :
        LET r == WriteByte(mem, s, x) IN
        /\ mem' = r.h
        /\ s' = r.b
        /\ last' = Call("WriteByte", <<x>>, <<x>>, 0, <<>>, FALSE, mem, s)
    /\ ncalls' = ncalls + 1
    /\ UNCHANGED <<orig, c, hasC, fields, decoded, phase>>

\* s.WriteBytes(src)
DoWriteBytes ==
    /\ CanWrite(s)
    /\ \E src \in Sources :
        LET r == WriteBytes(mem, s, src) IN
        /\ mem' = r.h
        /\ s' = r.b
        /\ last' = Call("WriteBytes", src, src, 0, <<>>, r.panic, mem, s)
    /\ ncalls' = ncalls + 1
    /\ UNCHANGED <<orig, c, hasC, fields, decoded, phase>>

\* s.WriteBytesN(src, length)
DoWriteBytesN ==
    /\ CanWrite(s)
    /\ \E src \in Sources : \E length \in 0..(Len(src) + 1) :
        LET r == WriteBytesN(mem, s, src, length) IN
        /\ mem' = r.h
        /\ s' = r.b
        /\ last' = Call("WriteBytesN", src, src, length, <<>>, r.panic, mem, s)
    /\ ncalls' = ncalls + 1
    /\ UNCHANGED <<orig, c, hasC, fields, decoded, phase>>

\* s.Reset()
DoReset ==
    /\ CanCall(s)
    /\ s' = Reset(s)
    /\ last' = Call("Reset", <<>>, <<>>, 0, <<>>, FALSE, mem, s)
    /\ ncalls' = Counted(s)
    /\ UNCHANGED <<mem, orig, c, hasC, fields, decoded, phase>>

\* c := s.Copy()
DoCopy ==
    /\ ~hasC
    /\ LET r == Copy(mem, s) IN
       /\ mem' = r.h
       /\ c' = r.b
    /\ hasC' = TRUE
    /\ last' = Call("Copy", <<>>, <<>>, 0, <<>>, FALSE, mem, s)
    /\ UNCHANGED <<orig, s, ncalls, fields, decoded, phase>>

Next ==
    \/ DoUint8 \/ DoUint16 \/ DoUint32 \/ DoUint64
    \/ DoInt8 \/ DoInt16 \/ DoInt32 \/ DoInt64
    \/ DoFloat32 \/ DoFloat64
    \/ DoGetBytes \/ DoGetByte
    \/ DoWriteByte \/ DoWriteBytes \/ DoWriteBytesN
    \/ DoReset \/ DoCopy

Spec == Init /\ [][Next]_vars

-----------------------------------------------------------------------------
(* The codec scenario of the README: one field sequence drives a writing   *)
(* stream, the bytes produced are handed to a reading stream c, and the    *)
(* same sequence drives c.                                                 *)

\* s := NewStream(nil), as MarshalBinary does
InitCodec ==
    /\ phase = "encode"
    /\ LET r == NewStream(EmptyHeap, NoSlice) IN Start(r.h, r.b, NoSlice)

\* s := NewWritingStream(size) or NewStream(nil), as the tests do
InitRoundTrip ==
    /\ phase = "encode"
    /\ \/ InitWriting
       \/ LET r == NewStream(EmptyHeap, NoSlice) IN Start(r.h, r.b, NoSlice)

\* the next field of the message, of type t and value v, is written to s
EncodeField(t, v) ==
    /\ phase = "encode"
    /\ LET r == Accessor(t, mem, s, v) IN
       /\ mem' = r.h
       /\ s' = r.b
       /\ last' = Call(t, v, r.n, 0, <<>>, r.panic, mem, s)
    /\ fields' = Append(fields, [t |-> t, v |-> v])
    /\ UNCHANGED <<orig, c, hasC, ncalls, decoded, phase>>

\* a message of up to MaxFields fields
Encode ==
    /\ Len(fields) < MaxFields
    /\ \E t \in Types : EncodeField(t, Held(t))

\* a message of one field, of any value
EncodeOne ==
    /\ fields = <<>>
    /\ \E t \in Types : \E v \in Values(t) : EncodeField(t, v)

\* c := s.Copy()
TransferCopy ==
    /\ phase = "encode"
    /\ LET r == Copy(mem, s) IN
       /\ mem' = r.h
       /\ c' = r.b
    /\ hasC' = TRUE
    /\ phase' = "decode"
    /\ last' = Call("Copy", <<>>, <<>>, 0, <<>>, FALSE, mem, s)
    /\ UNCHANGED <<orig, s, ncalls, fields, decoded>>

\* bytes, _ := s.Bytes(); c := NewStream(bytes[:k]): all the bytes produced
\* (k = Len()) or only the first k of them
TransferStream ==
    /\ phase = "encode"
    /\ \E k \in 0..s.len :
        /\ k = 0 => s.len = 0
        /\ LET buf == [a |-> s.a, len |-> k]
               r == NewStream(Retain(mem, s.a), buf)
           IN /\ mem' = r.h
              /\ c' = r.b
              /\ orig' = buf
    /\ hasC' = TRUE
    /\ phase' = "decode"
    /\ last' = Call("NewStream", <<>>, <<>>, 0, <<>>, FALSE, mem, s)
    /\ UNCHANGED <<s, ncalls, fields, decoded>>

\* bytes, _ := s.Bytes(); c := NewReadingStreamCopy(bytes[:k]) for a proper,
\* non-empty prefix of the bytes produced
TransferShortCopy ==
    /\ phase = "encode"
    /\ \E k \in 1..(s.len - 1) :
        LET buf == [a |-> s.a, len |-> k]
            r == NewReadingStreamCopy(Retain(mem, s.a), buf)
        IN /\ mem' = r.h
           /\ c' = r.b
           /\ orig' = buf
    /\ hasC' = TRUE
    /\ phase' = "decode"
    /\ last' = Call("NewReadingStreamCopy", <<>>, <<>>, 0, <<>>, FALSE, mem, s)
    /\ UNCHANGED <<s, ncalls, fields, decoded>>

\* whether a call of the decoding sequence panicked: the sequence stops there
Panicked == \E i \in 1..Len(decoded) : decoded[i].panic

\* the next field of the message is read from c into a variable holding n0
DecodeField(n0) ==
    /\ phase = "decode"
    /\ Len(decoded) < Len(fields)
    /\ ~Panicked
    /\ LET t == fields[Len(decoded) + 1].t
           r == Accessor(t, mem, c, n0)
       IN /\ mem' = r.h
          /\ c' = r.b
          /\ last' = Call(t, n0, r.n, 0, <<>>, r.panic, mem, c)
          /\ decoded' = Append(decoded, [n0 |-> n0, n1 |-> r.n, panic |-> r.panic])
    /\ UNCHANGED <<orig, s, hasC, ncalls, fields, phase>>

Decode ==
    /\ Len(decoded) < Len(fields)
    /\ DecodeField(Prior(fields[Len(decoded) + 1].t))

DecodeOne ==
    /\ Len(decoded) < Len(fields)
    /\ \E n0 \in Values(fields[Len(decoded) + 1].t) : DecodeField(n0)

NextCodec == Encode \/ TransferCopy \/ TransferStream \/ TransferShortCopy \/ Decode

SpecCodec == InitCodec /\ [][NextCodec]_vars

NextRoundTrip == EncodeOne \/ TransferCopy \/ DecodeOne

SpecRoundTrip == InitRoundTrip /\ [][NextRoundTrip]_vars

-----------------------------------------------------------------------------
(* Properties of single calls, stated on the record of the last call.      *)

Accessors == Types

Writers == {"WriteByte", "WriteBytes", "WriteBytesN"}

\* bytes between Pos() and Len() before the last call
Remaining == last.pre.len - last.pre.pos

\* the last call was accessor or read made on a read-mode stream with no
\* error latched
ClearRead == last.pre.reading /\ last.pre.err = NilErr

\* C1: a numeric accessor called on a read-mode stream with no error latched
\* and fewer than sizeof(type) bytes remaining returns normally, sets the
\* error to io.EOF, leaves Pos() unchanged and leaves the target unmodified.
C1_ShortReadLatchesEOF ==
    (last.op \in Accessors /\ ClearRead /\ Remaining < Width(last.op))
        => /\ ~last.panic
           /\ s.err = EOF
           /\ s.pos = last.pre.pos
           /\ last.n1 = last.n0

\* C2: GetBytes(n) on a read-mode stream with no error latched: with fewer
\* than n bytes remaining it sets io.EOF, returns an empty result and does
\* not advance; otherwise it returns storage[Pos() .. Pos()+n) and advances
\* Pos() by n.
C2_GetBytesChecksRemaining ==
    (last.op = "GetBytes" /\ ClearRead)
        => /\ ~last.panic
           /\ IF Remaining < last.length
              THEN /\ s.err = EOF
                   /\ last.ret = <<>>
                   /\ s.pos = last.pre.pos
              ELSE /\ s.err = NilErr
                   /\ last.ret = SubSeq(last.preBuf, last.pre.pos + 1,
                                        last.pre.pos + last.length)
                   /\ s.pos = last.pre.pos + last.length

\* C4: on a write-mode stream with Pos() == Len(), a numeric accessor or a
\* WriteByte/WriteBytes/WriteBytesN call leaves Pos() == Len(): it advances
\* the position by exactly the number of bytes it appended.
C4_WritePosTracksLen ==
    /\ (ncalls = 0 /\ ~s.reading) => s.pos = s.len
    /\ (/\ last.op \in Accessors \cup Writers
        /\ ~last.pre.reading
        /\ last.pre.pos = last.pre.len)
           => s.pos = s.len

\* C5: on a read-mode stream, after any sequence of GetBytes, GetByte and
\* numeric accessor calls, 0 <= Pos() <= Len(), and no call reads a byte at
\* an index >= Len().
C5_ReadPosWithinLen ==
    s.reading
        => /\ 0 <= s.pos
           /\ s.pos <= s.len
           /\ (last.op = "GetBytes" /\ last.ret # <<>>)
                  => last.pre.pos + last.length <= last.pre.len

\* C6: once the error is latched, a numeric accessor, GetBytes or GetByte
\* call leaves storage, Pos() and the error unchanged, does not write to the
\* target, and GetBytes / GetByte return an empty / zero result.
C6_StickyErrorNoOp ==
    (last.op \in Accessors \cup {"GetBytes", "GetByte"} /\ last.pre.err # NilErr)
        => /\ ~last.panic
           /\ s = last.pre
           /\ Buf(mem, s) = last.preBuf
           /\ last.n1 = last.n0
           /\ last.op = "GetBytes" => last.ret = <<>>
           /\ last.op = "GetByte" => last.ret = <<0>>

\* GetBytes was called after the error latched although the bytes it asks
\* for were there
C6_Witness ==
    /\ last.op = "GetBytes"
    /\ last.pre.err = EOF
    /\ last.pre.reading
    /\ last.length > 0
    /\ Remaining >= last.length

\* C10: Copy() on a stream in either mode returns a read-mode stream whose
\* storage has the length and the bytes of the source's storage.
C10_CopyIsReadModeDuplicate ==
    last.op = "Copy"
        => /\ hasC
           /\ c.reading
           /\ c.len = last.pre.len
           /\ Buf(mem, c) = last.preBuf
           /\ Buf(mem, c) = Buf(mem, s)

\* a write-mode stream holding bytes was copied
C10_Witness ==
    /\ last.op = "Copy"
    /\ ~last.pre.reading
    /\ last.pre.len >= 2

-----------------------------------------------------------------------------
(* The wire layout, stated independently of the accessors.                 *)

RECURSIVE Pow2(_)
Pow2(k) == IF k = 0 THEN 1 ELSE 2 * Pow2(k - 1)

\* the number a short bit vector denotes
RECURSIVE BitsValue(_)
BitsValue(bits) == IF bits = <<>> THEN 0 ELSE Head(bits) + 2 * BitsValue(Tail(bits))

\* (v >> 8*i) mod 256 of v's bit pattern, for i = 0 .. N/8 - 1
LittleEndian(v) ==
    [i \in 1..(Len(v) \div 8) |-> BitsValue(SubSeq(v, 8 * (i - 1) + 1, 8 * i))]

\* the bit pattern of sum(byte_i << 8*i)
FromLittleEndian(bytes) ==
    [j \in 1..(8 * Len(bytes)) |->
        (bytes[((j - 1) \div 8) + 1] \div Pow2((j - 1) % 8)) % 2]

\* C7: in write mode an N-bit integer accessor called with v appends exactly
\* N/8 bytes, byte i being (v >> 8*i) mod 256 of v's bit pattern (uint16
\* 0xABCD appends [0xCD, 0xAB]); in read mode it decodes sum(byte_i << 8*i)
\* from the N/8 bytes at Pos().
C7_LittleEndianLayout ==
    /\ (last.op \in IntTypes /\ ~last.pre.reading /\ last.pre.err = NilErr)
           => /\ ~last.panic
              /\ Buf(mem, s) = last.preBuf \o LittleEndian(last.n0)
              /\ (last.op = "Uint16" /\ BitsValue(last.n0) = 43981)
                     => SubSeq(Buf(mem, s), s.len - 1, s.len) = <<205, 171>>
    /\ (last.op \in IntTypes /\ ClearRead /\ Remaining >= Width(last.op))
           => /\ ~last.panic
              /\ last.n1 = FromLittleEndian(
                     SubSeq(last.preBuf, last.pre.pos + 1,
                            last.pre.pos + Width(last.op)))

\* uint16 0xABCD was written after other bytes
C7_Witness ==
    /\ last.op = "Uint16"
    /\ ~last.pre.reading
    /\ last.pre.err = NilErr
    /\ last.pre.len > 0
    /\ BitsValue(last.n0) = 43981
    /\ s.len = last.pre.len + 2

-----------------------------------------------------------------------------
(* Properties of the codec scenario.                                       *)

\* the decoding sequence has been driven to its end
Done == phase = "decode" /\ Len(decoded) = Len(fields)

\* the total width of the first i fields
RECURSIVE PrefixWidth(_)
PrefixWidth(i) == IF i = 0 THEN 0 ELSE PrefixWidth(i - 1) + Width(fields[i].t)

\* the fields that lie entirely within the bytes c was given
Fitting == {i \in 1..Len(fields) : PrefixWidth(i) <= c.len}

\* C3: for each type and value v, writing v to a fresh write-mode stream,
\* calling Copy() and reading with the same accessor on the copy yields
\* exactly v and leaves the copy's error unset.
C3_RoundTrip ==
    (phase = "decode" /\ Len(fields) = 1 /\ Len(decoded) = 1)
        => /\ ~decoded[1].panic
           /\ decoded[1].n1 = fields[1].v
           /\ c.err = NilErr

\* a 64-bit value with the top bit set came back
C3_Witness ==
    /\ Done
    /\ Len(fields) = 1
    /\ fields[1] = [t |-> "Uint64", v |-> U64a]
    /\ decoded[1].n0 # U64a
    /\ decoded[1].n1 = U64a

\* C8: a field sequence written to a write-mode stream and read back in the
\* same order from a read-mode stream over all the bytes produced (Copy() or
\* NewStream(bytes)) yields the written values in order, leaves the reader's
\* error unset and ends with the reader's Pos() == Len().
C8_FieldOrderSymmetry ==
    (phase = "decode" /\ c.len = s.len)
        => /\ \A i \in 1..Len(decoded) :
                  ~decoded[i].panic /\ decoded[i].n1 = fields[i].v
           /\ c.err = NilErr
           /\ Done => c.pos = c.len

\* [uint8(7), float32(2.5)] was encoded and decoded
C8_Witness ==
    /\ Done
    /\ c.len = s.len
    /\ Len(fields) = 2
    /\ fields[1] = [t |-> "Uint8", v |-> U8a]
    /\ fields[2] = [t |-> "Float32", v |-> F32a]
    /\ decoded[2].n0 # F32a

\* C9: a field sequence driven to completion over a read-mode stream whose
\* length is non-zero but smaller than the sum of the field widths: every
\* call returns normally, the error afterwards is io.EOF, every field that
\* fits before the shortfall holds its decoded value, the fields from the
\* first shortfall onward are not written, and Pos() is the total width of
\* the decoded prefix.
C9_FailedDecodeReportedAtEnd ==
    (phase = "decode" /\ c.reading /\ 0 < c.len /\ c.len < PrefixWidth(Len(fields)))
        => /\ \A i \in 1..Len(decoded) :
                  /\ ~decoded[i].panic
                  /\ IF i \in Fitting THEN decoded[i].n1 = fields[i].v
                     ELSE decoded[i].n1 = decoded[i].n0
           /\ Done => /\ Bytes(mem, c).err = EOF
                      /\ c.pos = PrefixWidth(Cardinality(Fitting))

-----------------------------------------------------------------------------
(* The copy scenario: a stream s and a copy c of it (or of the caller's    *)
(* slice) are both used, and the caller writes into the slices it holds.   *)

\* c := NewReadingStreamCopy(buf) for the caller's slice buf
CopyOrig ==
    /\ ~hasC
    /\ LET r == NewReadingStreamCopy(mem, orig) IN
       /\ mem' = r.h
       /\ c' = r.b
    /\ hasC' = TRUE
    /\ last' = Call("NewReadingStreamCopy", <<>>, <<>>, 0, <<>>, FALSE, mem, s)
    /\ UNCHANGED <<orig, s, ncalls, fields, decoded, phase>>

\* the heap after the byte at 0-based index i of array a is set to x
Poke(h, a, i, x) == [h EXCEPT !.arr[a].data[i + 1] = x]

\* buf[i] = 0 for the slice buf the caller handed to the constructor
MutateOrig ==
    /\ orig.len > 0
    /\ \E i \in {0} :
        /\ mem' = Poke(mem, orig.a, i, 0)
        /\ last' = Call("MutateOrig", <<>>, <<>>, i, <<>>, FALSE, mem, s)
    /\ UNCHANGED <<orig, s, c, hasC, ncalls, fields, decoded, phase>>

\* p, _ := s.Bytes(); p[i] = 0
MutateBytes ==
    /\ s.len > 0
    /\ \E i \in {0} :
        /\ mem' = Poke(mem, s.a, i, 0)
        /\ last' = Call("MutateBytes", <<>>, <<>>, i, <<>>, FALSE, mem, s)
    /\ UNCHANGED <<orig, s, c, hasC, ncalls, fields, decoded, phase>>

\* c.<t>(&n) with n = Prior(t)
UseAccess(t) ==
    /\ hasC
    /\ LET r == Accessor(t, mem, c, Prior(t)) IN
       /\ mem' = r.h
       /\ c' = r.b
       /\ last' = Call(t, Prior(t), r.n, 0, <<>>, r.panic, mem, c)
    /\ UNCHANGED <<orig, s, hasC, ncalls, fields, decoded, phase>>

UseUint8 == UseAccess("Uint8")

\* c.GetBytes(length)
UseGetBytes ==
    /\ hasC
    /\ \E length \in 1..MaxGetLen :
        LET r == GetBytes(mem, c, length) IN
        /\ c' = r.b
        /\ last' = Call("GetBytes", <<>>, <<>>, length, r.ret, r.panic, mem, c)
    /\ UNCHANGED <<mem, orig, s, hasC, ncalls, fields, decoded, phase>>

\* c.WriteByte(x): the calls that grow a stream are counted and bounded
UseWriteByte ==
    /\ hasC
    /\ ncalls < MaxCalls
    /\ LET r == WriteByte(mem, c, 0) IN
       /\ mem' = r.h
       /\ c' = r.b
       /\ last' = Call("WriteByte", <<0>>, <<0>>, 0, <<>>, FALSE, mem, c)
    /\ ncalls' = ncalls + 1
    /\ UNCHANGED <<orig, s, hasC, fields, decoded, phase>>

\* c.Reset()
UseReset ==
    /\ hasC
    /\ c' = Reset(c)
    /\ last' = Call("Reset", <<>>, <<>>, 0, <<>>, FALSE, mem, c)
    /\ UNCHANGED <<mem, orig, s, hasC, ncalls, fields, decoded, phase>>

\* what the caller does to the source and to the slices it holds
OnSource ==
    \/ DoUint8 \/ DoReset
    \/ MutateOrig \/ MutateBytes

\* what the caller does to the copy
OnCopy == UseUint8 \/ UseGetBytes \/ UseWriteByte \/ UseReset

NextCopy == DoCopy \/ CopyOrig \/ OnSource \/ OnCopy

\* s := NewStream(buf) or NewReadingStreamCopy(buf) for a slice buf that is
\* empty or short, with or without spare capacity
InitShort ==
    \E len \in {0, MaxCopyLen}, spare \in {0, MaxSpare} :
        LET m == CallerSlice(len, spare)
            o == [a |-> m.a, len |-> len]
        IN \/ LET r == NewStream(m.h, o) IN Start(r.h, r.b, o)
           \/ LET r == NewReadingStreamCopy(m.h, o) IN Start(r.h, r.b, o)

InitCopy ==
    /\ phase = "free"
    /\ (InitWriting \/ InitShort)

SpecCopy == InitCopy /\ [][NextCopy]_vars

\* the bytes of the caller's slice
OrigBuf(h) == Slice(h, orig, 0, orig.len)

\* C11: once c is s.Copy() or NewReadingStreamCopy(bytes), no operation on
\* the source s and no write into the caller's slice or into s.Bytes()
\* changes the bytes, length, position or error seen through c, and no
\* operation on c changes s, its bytes or the caller's slice.
C11_CopyIndependence ==
    [][hasC =>
          /\ OnSource => (c' = c /\ Buf(mem', c') = Buf(mem, c))
          /\ OnCopy => /\ s' = s
                       /\ Buf(mem', s') = Buf(mem, s)
                       /\ OrigBuf(mem') = OrigBuf(mem)]_vars

\* the caller overwrote a byte of the source's storage after the copy was
\* taken, and the copy still holds the old byte
C11_Witness ==
    /\ hasC
    /\ last.op = "MutateBytes"
    /\ c.len > 0
    /\ c.len = s.len
    /\ Buf(mem, c) # Buf(mem, s)
    /\ Buf(mem, c) = last.preBuf

-----------------------------------------------------------------------------
(* The construction scenario: the caller holds a slice, hands it to        *)
(* NewStream and uses the stream it gets.                                  *)

\* the caller holds buf (nil when it has no capacity); no stream exists yet
InitCaller ==
    /\ phase = "new"
    /\ \E len \in 0..MaxInLen, spare \in 0..MaxSpare :
        LET m == CallerSlice(len, spare) IN
        Start(m.h, ZeroStream, [a |-> m.a, len |-> len])

\* s := NewStream(buf)
Construct ==
    /\ phase = "new"
    /\ LET r == NewStream(mem, orig) IN
       /\ mem' = r.h
       /\ s' = r.b
    /\ phase' = "free"
    /\ last' = Call("NewStream", <<>>, <<>>, 0, <<>>, FALSE, mem, s)
    /\ UNCHANGED <<orig, c, hasC, ncalls, fields, decoded>>

\* the stream is used once constructed
Constructed(A) == phase = "free" /\ A

NextConstruct ==
    \/ Construct
    \/ Constructed(DoUint8)
    \/ Constructed(DoInt16)
    \/ Constructed(DoGetByte)
    \/ Constructed(DoWriteByte)
    \/ Constructed(DoReset)

SpecConstruct == InitCaller /\ [][NextConstruct]_vars

\* cap(buf) of the caller's slice
OrigCap(h) == Array(h, orig.a).cap

\* C12: NewStream(buf) gives, for len(buf) > 0, a read-mode stream over
\* exactly those bytes with Len() == len(buf); for len(buf) == 0 and
\* cap(buf) > 0, a write-mode stream with empty storage of that capacity;
\* for len(buf) == 0 and cap(buf) == 0, a write-mode stream with empty
\* storage of capacity 1500; always with the error unset and Pos() == 0.
C12_NewStreamPicksMode ==
    last.op = "NewStream"
        => /\ s.err = NilErr
           /\ s.pos = 0
           /\ orig.len > 0
                  => /\ s.reading
                     /\ s.len = orig.len
                     /\ Buf(mem, s) = OrigBuf(mem)
           /\ (orig.len = 0 /\ OrigCap(mem) > 0)
                  => /\ ~s.reading
                     /\ s.len = 0
                     /\ Cap(mem, s) = OrigCap(mem)
           /\ (orig.len = 0 /\ OrigCap(mem) = 0)
                  => /\ ~s.reading
                     /\ s.len = 0
                     /\ Cap(mem, s) = 1500

\* NewStream(nil) was called
C12_Witness ==
    /\ last.op = "NewStream"
    /\ orig = NoSlice
    /\ ~s.reading
    /\ Cap(mem, s) > 0

-----------------------------------------------------------------------------
(* The signed-decode scenario: signed fields are read from received bytes  *)
(* whose top bits are set.                                                 *)

SignedTypes == {"Int8", "Int16", "Int32", "Int64"}

\* received bytes: all 0xFF, all with the top bit set, or the usual ones
Received(kind, n) ==
    CASE kind = "ones" -> [i \in 1..n |-> 255]
      [] kind = "top" -> [i \in 1..n |-> 128 + i]
      [] kind = "wire" -> WireData(n)

\* s := NewStream(buf) over received bytes
InitSigned ==
    /\ phase = "free"
    /\ \E len \in 1..MaxInLen, kind \in {"ones", "top", "wire"} :
        LET m == Make(EmptyHeap, Received(kind, len), len)
            o == [a |-> m.a, len |-> len]
            r == NewStream(m.h, o)
        IN Start(r.h, r.b, o)

NextSigned == DoInt8 \/ DoInt16 \/ DoInt32 \/ DoInt64 \/ DoReset

SpecSigned == InitSigned /\ [][NextSigned]_vars

\* -1 at N bits in two's complement
MinusOne(N) == [i \in 1..N |-> 1]

\* the two's-complement value of a bit pattern of at most 16 bits
SignedValue(v) ==
    BitsValue(SubSeq(v, 1, Len(v) - 1)) - v[Len(v)] * Pow2(Len(v) - 1)

\* the bytes the last call found at Pos()
Taken == SubSeq(last.preBuf, last.pre.pos + 1, last.pre.pos + Width(last.op))

\* C13: a signed N-bit field read from a read-mode stream holding N/8
\* bytes at Pos() is the two's-complement reading of their little-endian
\* bit pattern: negative whenever the top bit of the last byte is set, and
\* -1 (never 2^N - 1) when every byte is 0xFF.
C13_SignedDecode ==
    (last.op \in SignedTypes /\ ClearRead /\ Remaining >= Width(last.op))
        => /\ ~last.panic
           /\ last.n1 = FromLittleEndian(Taken)
           /\ Len(last.n1) = 8 * Width(last.op)
           /\ Taken[Width(last.op)] >= 128 => last.n1[Len(last.n1)] = 1
           /\ (\A i \in 1..Width(last.op) : Taken[i] = 255)
                  => last.n1 = MinusOne(8 * Width(last.op))
           /\ Width(last.op) = 1
                  => SignedValue(last.n1)
                         = IF Taken[1] >= 128 THEN Taken[1] - 256 ELSE Taken[1]
           /\ Width(last.op) = 2
                  => SignedValue(last.n1)
                         = IF Taken[2] >= 128
                           THEN Taken[1] + 256 * Taken[2] - 65536
                           ELSE Taken[1] + 256 * Taken[2]

\* eight bytes 0xFF were read as an int64 into a variable that held
\* something else
C13_Witness ==
    /\ last.op = "Int64"
    /\ ClearRead
    /\ Remaining >= 8
    /\ Taken = <<255, 255, 255, 255, 255, 255, 255, 255>>
    /\ last.n0 # MinusOne(64)
    /\ last.n1 = MinusOne(64)

-----------------------------------------------------------------------------
(* Properties of the write side.                                           *)

\* the bytes the last WriteByte / WriteBytes / WriteBytesN call was asked to
\* append: the byte, all of src, or src[0..n)
Asked ==
    IF last.op = "WriteBytesN" THEN SubSeq(last.n0, 1, last.length)
    ELSE last.n0

\* C14: on a write-mode stream WriteBytes(src) appends the bytes of src
\* verbatim and in order, with no length prefix, leaves the bytes written
\* before unchanged and advances Pos() by len(src); WriteByte appends one
\* byte and WriteBytesN(src, n) with n <= len(src) appends src[0..n) the
\* same way.
C14_WriteBytesVerbatim ==
    (/\ last.op \in Writers
     /\ ~last.pre.reading
     /\ last.op = "WriteBytesN" => last.length <= Len(last.n0))
        => /\ ~last.panic
           /\ Buf(mem, s) = last.preBuf \o Asked
           /\ s.len = last.pre.len + Len(Asked)
           /\ s.pos = last.pre.pos + Len(Asked)
           /\ last.op = "WriteByte" => Len(Asked) = 1

\* WriteBytesN appended the first byte of a two-byte src after other bytes
C14_Witness ==
    /\ last.op = "WriteBytesN"
    /\ ~last.pre.reading
    /\ last.pre.len > 0
    /\ last.n0 = <<98, 99>>
    /\ last.length = 1
    /\ Buf(mem, s) = last.preBuf \o <<98>>

-----------------------------------------------------------------------------
(* The growth scenario: a stream made by NewWritingStream(size) is written *)
(* past its size hint, by accessors and by the byte writers.               *)

InitGrow ==
    /\ phase = "encode"
    /\ InitWriting

\* the next thing written is recorded with the bytes it was asked to append
Wrote(op, src, r, panic) ==
    /\ mem' = r.h
    /\ s' = r.b
    /\ last' = Call(op, src, src, 0, <<>>, panic, mem, s)
    /\ fields' = Append(fields, [t |-> op, v |-> src])
    /\ UNCHANGED <<orig, c, hasC, ncalls, decoded, phase>>

\* s.WriteByte(x) or s.WriteBytes(src)
WriteRaw ==
    /\ phase = "encode"
    /\ Len(fields) < MaxFields
    /\ \/ \E x \in {97, 255} :
            Wrote("WriteByte", <<x>>, WriteByte(mem, s, x), FALSE)
       \/ \E src \in Sources :
            LET r == WriteBytes(mem, s, src) IN Wrote("WriteBytes", src, r, r.panic)

NextGrow == Encode \/ WriteRaw

SpecGrow == InitGrow /\ [][NextGrow]_vars

\* the number of bytes the i-th write was asked to append
Asks(i) ==
    IF fields[i].t \in Types THEN Width(fields[i].t) ELSE Len(fields[i].v)

\* the total number of bytes the first i writes were asked to append
RECURSIVE TotalWritten(_)
TotalWritten(i) == IF i = 0 THEN 0 ELSE TotalWritten(i - 1) + Asks(i)

\* C15: on a stream created by NewWritingStream(size), writes totalling
\* more than size bytes succeed without error and Len() afterwards is the
\* total number of bytes written: the size hint never truncates or rejects
\* a write.
C15_WriteModeGrowth ==
    /\ ~last.panic
    /\ s.err = NilErr
    /\ ~s.reading
    /\ s.len = TotalWritten(Len(fields))
    /\ Len(Buf(mem, s)) = s.len

\* more bytes were written than any size hint tried, and storage moved to
\* a larger array
C15_Witness ==
    /\ Len(fields) = MaxFields
    /\ TotalWritten(Len(fields)) > MaxSpare
    /\ s.len = TotalWritten(Len(fields))
    /\ Cap(mem, s) > MaxSpare
    /\ last.op = "WriteBytes"
    /\ last.pre.len > 0

-----------------------------------------------------------------------------
(* Properties of the error latch.                                          *)

\* the last call latched the error
Latched == last.pre.err = NilErr /\ s.err # NilErr

\* the number of bytes the last call needed at Pos()
Needed ==
    CASE last.op \in Types -> Width(last.op)
      [] last.op = "GetBytes" -> last.length
      [] last.op = "GetByte" -> 1
      [] OTHER -> 0

\* C16: on a write-mode stream no numeric accessor call and no WriteByte /
\* WriteBytes / WriteBytesN call latches the error; the only call that
\* takes a stream from no error to an error is a call on a read-mode stream
\* that finds too few bytes remaining.
C16_WritesNeverError ==
    /\ (last.op \in Accessors \cup Writers /\ ~last.pre.reading)
           => ~Latched
    /\ Latched
           => /\ last.pre.reading
              /\ Remaining < Needed

\* C17: Reset() sets Pos() to 0 and leaves the storage (length and bytes),
\* the latched error and the mode unchanged, in read and in write mode,
\* with or without an error latched.
C17_ResetRewindsOnly ==
    last.op = "Reset"
        => /\ s.pos = 0
           /\ s.len = last.pre.len
           /\ Buf(mem, s) = last.preBuf
           /\ s.a = last.pre.a
           /\ s.err = last.pre.err
           /\ s.reading = last.pre.reading

\* a stream that had read bytes and latched the error was reset
C17_Witness ==
    /\ last.op = "Reset"
    /\ last.pre.pos > 0
    /\ last.pre.err = EOF
    /\ last.pre.len > 0
    /\ s.pos = 0

-----------------------------------------------------------------------------
(* Properties of the storage.                                              *)

Readers == Accessors \cup {"GetBytes", "GetByte"}

\* C18: on a read-mode stream no numeric accessor, GetBytes or GetByte call
\* changes the length or the bytes of storage, and the stream stays in read
\* mode.
C18_ReadModeStorageFixed ==
    (last.op \in Readers /\ last.pre.reading)
        => /\ s.reading
           /\ s.len = last.pre.len
           /\ s.a = last.pre.a
           /\ Buf(mem, s) = last.preBuf

\* a signed byte was read from a read-mode stream with bytes left after it
C18_Witness ==
    /\ last.op = "Int8"
    /\ last.pre.reading
    /\ last.pre.err = NilErr
    /\ s.pos = last.pre.pos + 1
    /\ s.pos < s.len
    /\ last.n1 # last.n0

\* C19: GetByte and GetBytes, called on a stream in either mode, leave the
\* length and the bytes of storage unchanged.
C19_GetsLeaveStorage ==
    last.op \in {"GetByte", "GetBytes"}
        => /\ s.len = last.pre.len
           /\ Buf(mem, s) = last.preBuf

\* C20: the stream Copy() returns has Pos() == 0 and no error latched,
\* whatever the position and the error of the source, and Copy() leaves the
\* source's storage, position, mode and error unchanged.
C20_CopyStartsClean ==
    last.op = "Copy"
        => /\ c.pos = 0
           /\ c.err = NilErr
           /\ s = last.pre
           /\ Buf(mem, s) = last.preBuf

\* a stream with a non-zero position and io.EOF latched was copied
C20_Witness ==
    /\ last.op = "Copy"
    /\ hasC
    /\ last.pre.pos > 0
    /\ last.pre.err = EOF
    /\ last.pre.len > 0

====
